---- MODULE Spec2Model ----
(***************************************************************************)
(* pyualtrics: the response export job (Survey._export_survey), the        *)
(* response store (Survey.get_responses, Survey._create_responses_         *)
(* dataframe), the filter engine (Survey.filter_responses_by_text,         *)
(* Survey.filter_responses_by_date, _compare_timestamps) and the paginated *)
(* getters of src/pyualtrics/qualtrics.py, as a state machine of one       *)
(* Survey object and one Qualtrics object.                                 *)
(*                                                                         *)
(* The program starts no thread and every network call blocks, so in Spec, *)
(* TextSpec, DateSpec, FilterSpec, DecodeSpec, PageSpec and CopySpec one   *)
(* action is one public call run up to its first network exchange, or one  *)
(* network exchange (the request and the server's answer) followed by      *)
(* everything the code does up to its next exchange or its return.         *)
(* PayloadSpec has the export POST with its body, SessionSpec the          *)
(* construction of Qualtrics objects and the header of each request, and   *)
(* ThreadSpec two threads of a caller in get_responses on the one Survey.  *)
(***************************************************************************)
EXTENDS Integers, Sequences, FiniteSets, TLC

VARIABLES
    responseFolder,     \* Survey.responseFolder: a folder name, or None
    responsesFile,      \* Survey.responsesFile: the artifact's path, or NoPath
    responses,          \* Survey.responses: the row sequence (list of Response.data)
    responseDataframe,  \* Survey.responseDataframe: NoFrame, or the pandas table
    disk,               \* local storage: what each folder's {name}.csv holds
    pc,                 \* where the running call stands
    call,               \* the public call that is running, with its arguments
    progressId,         \* _export_survey's local progressId
    log,                \* this call's network exchanges and logging.error records
    result,             \* what the call returned or raised
    responsesIsNone,    \* Survey.responses is None (line 997) rather than a list
    threads,            \* the frame of each thread that runs get_responses
    qualtrics,          \* the cached lists: Qualtrics.surveys, .groups, .mailing_lists,
                        \* .libraries, a Library's .surveys, a MailingList's .contacts
    paging,             \* the frame of the paginated getter that is running
    header,             \* the module's global `header` (line 19): the token in it
    sessions,           \* the Qualtrics objects constructed: the token of each
    copying             \* the frame of the Survey.copy call that is running

vars == <<responseFolder, responsesFile, responses, responseDataframe, disk,
          pc, call, progressId, log, result, responsesIsNone, threads,
          qualtrics, paging, header, sessions, copying>>

\* the module global and the sessions
SessionVars == <<header, sessions>>

\* the variables of the Survey and its calls, and those of the paginated getters
SurveyVars == <<responseFolder, responsesFile, responses, responseDataframe, disk,
                pc, call, progressId, log, result, responsesIsNone, threads>>
PagingVars == <<qualtrics, paging>>

----------------------------------------------------------------------------
(* Bounds of the model *)

\* most data rows (after the two metadata rows) of an artifact of TextSpec
MaxTextRows == 3
\* most data rows (after the two metadata rows) of an artifact of DateSpec
MaxDateRows == 2
\* most status polls of one export job the model follows
MaxPolls == 3
\* the number of polls a caller is prepared to wait for (the claim's limit)
CallerPollLimit == 2

----------------------------------------------------------------------------
(* Values *)

None == "None"
Folders == {"out1", "out2"}
SurveyName == "survey"

Range(s) == {s[i] : i \in 1..Len(s)}

\* Python truthiness of a str-or-None value
Truthy(v) == v # None /\ v # ""

\* "{}/{}.{}".format(self.responseFolder, self.name, fileFormat)
ResponsesPath(folder, fileFormat) == <<folder, SurveyName, fileFormat>>
NoPath == <<>>

\* timestamps in the format %Y-%m-%d %H:%M:%S
T1 == "2021-01-01 00:00:00"
T2 == "2021-03-01 00:00:00"
T3 == "2021-06-01 00:00:00"
Stamps == {T1, T2, T3}

\* the columns of the export; the two leading rows of every export repeat the
\* column headers (the labels, then the import ids)
Fields == {"ResponseId", "StartDate", "RecordedDate", "Q1", "Q2"}
LabelRow ==
    [ResponseId |-> "Response ID", StartDate |-> "Start Date",
     RecordedDate |-> "Recorded Date", Q1 |-> "Question 1", Q2 |-> "Question 2"]
ImportIdRow ==
    [ResponseId |-> "{ImportId:_recordId}", StartDate |-> "{ImportId:startDate}",
     RecordedDate |-> "{ImportId:recordedDate}", Q1 |-> "{ImportId:QID1}",
     Q2 |-> "{ImportId:QID2}"]

Row(id, start, recorded, q1, q2) ==
    [ResponseId |-> id, StartDate |-> start, RecordedDate |-> recorded,
     Q1 |-> q1, Q2 |-> q2]

\* an artifact is the sequence of the csv's lines after its header line
Artifact(rows) == <<LabelRow, ImportIdRow>> \o rows

NoFile == [exists |-> FALSE, lines |-> <<>>]
File(lines) == [exists |-> TRUE, lines |-> lines]

----------------------------------------------------------------------------
(* The response store: decoding the artifact *)

RECURSIVE PopFront(_, _)
\* list.pop(0), n times: the rest, or an IndexError once the list is empty
PopFront(rows, n) ==
    IF n = 0 THEN [raised |-> FALSE, rows |-> rows]
    ELSE IF rows = <<>> THEN [raised |-> TRUE, rows |-> rows]
    ELSE PopFront(Tail(rows), n - 1)

\* the number of leading rows get_responses pops
HeaderRepeatRows == 2

\* a faulty variant of lines 998-1010: one row popped only
DecodeFileWithOnePop(file) ==
    IF ~file.exists THEN [raised |-> TRUE, rows |-> <<>>]
    ELSE PopFront(file.lines, 1)

\* Survey.get_responses, lines 998-1010, on a store whose responses are falsy:
\* read every line of the file as a Response, then pop the first two
DecodeFile(file) ==
    IF ~file.exists THEN [raised |-> TRUE, rows |-> <<>>]
    ELSE PopFront(file.lines, HeaderRepeatRows)

\* the values pandas' type inference makes of a csv column
NaN == "NaN"
IsNumeric(v) == v \in {"0", "1", "2"}
PdNumber(v) == <<"number", v>>
PdColumnIsNumeric(rows, f) ==
    /\ \E i \in 1..Len(rows) : rows[i][f] # ""
    /\ \A i \in 1..Len(rows) : rows[i][f] = "" \/ IsNumeric(rows[i][f])
PdCell(rows, f, v) ==
    IF v = "" THEN <<"nan", NaN>>
    ELSE IF PdColumnIsNumeric(rows, f) THEN PdNumber(v)
    ELSE <<"str", v>>

\* pd.read_csv(path, skiprows=[1, 2]): the lines after the header, except file
\* lines 1 and 2, each column converted by type inference
SkipRows(lines) ==
    [i \in 1..(IF Len(lines) > 2 THEN Len(lines) - 2 ELSE 0) |-> lines[i + 2]]
ReadCsv(lines) ==
    LET rows == SkipRows(lines)
    IN  [i \in 1..Len(rows) |-> [f \in Fields |-> PdCell(rows, f, rows[i][f])]]

NoFrame == [exists |-> FALSE, rows |-> <<>>]
Frame(rows) == [exists |-> TRUE, rows |-> rows]

----------------------------------------------------------------------------
(* The filter engine *)

\* a filter spec is a dict: the sequence of its <<field, values>> items in
\* insertion order, the fields distinct; values is a list
FieldOf(item) == item[1]
ValuesOf(item) == item[2]

\* a before/after string is the sequence of its characters
Chars_b == <<"b">>
Chars_a == <<"a">>
Chars_before == <<"b", "e", "f", "o", "r", "e">>
Chars_after == <<"a", "f", "t", "e", "r">>
Chars_Before == <<"B", "e", "f", "o", "r", "e">>
Chars_x == <<"x">>

\* str.lower() of one character
Lower(c) == CASE c = "B" -> "b" [] c = "A" -> "a" [] OTHER -> c

\* str.startswith
StartsWith(chars, prefix) ==
    Len(chars) >= Len(prefix) /\ SubSeq(chars, 1, Len(prefix)) = prefix

\* datetime.strptime(stamp, "%Y-%m-%d %H:%M:%S"): the instant, as a number that
\* orders as datetime orders
Parses(stamp) == stamp \in Stamps
Strptime(stamp) ==
    CASE stamp = T1 -> 20210101
      [] stamp = T2 -> 20210301
      [] stamp = T3 -> 20210601

\* the outcomes of _compare_timestamps: a bool, None, or an exception
PyTrue == "True"
PyFalse == "False"
PyBool(b) == IF b THEN PyTrue ELSE PyFalse
Raised == "raise"

\* _compare_timestamps(stamp1, stamp2, beforeAfter)
_compare_timestamps(stamp1, stamp2, beforeAfter) ==
    IF beforeAfter = <<>> \/ Lower(Head(beforeAfter)) \notin {"b", "a"} THEN Raised
    ELSE IF ~Parses(stamp1) \/ ~Parses(stamp2) THEN Raised
    ELSE IF beforeAfter = Chars_b THEN PyBool(Strptime(stamp1) > Strptime(stamp2))
    ELSE IF beforeAfter = Chars_a THEN PyBool(Strptime(stamp1) < Strptime(stamp2))
    ELSE None

\* what a call hands back
NoResult == [kind |-> "pending", rows |-> <<>>, saved |-> FALSE, err |-> ""]
ReturnRows(rows) == [kind |-> "rows", rows |-> rows, saved |-> FALSE, err |-> ""]
ReturnTable(rows, saveFilter) ==
    [kind |-> "table", rows |-> rows, saved |-> saveFilter, err |-> ""]
ReturnNone == [kind |-> "None", rows |-> <<>>, saved |-> FALSE, err |-> ""]
ReturnBool(b) == [kind |-> PyBool(b), rows |-> <<>>, saved |-> FALSE, err |-> ""]
Raise(err) == [kind |-> Raised, rows |-> <<>>, saved |-> FALSE, err |-> err]

\* dict.get(field) on a row
DataGet(data, field) == IF field \in DOMAIN data THEN data[field] ELSE None

RECURSIVE FirstInvalidField(_, _, _)
\* lines 1052-1054 and 1102-1104: the first field whose value in responses[0]
\* is falsy (0: none); responses[0] itself raises IndexError on an empty list
FirstInvalidField(rows, filters, i) ==
    IF i > Len(filters) THEN 0
    ELSE IF ~Truthy(DataGet(rows[1], FieldOf(filters[i]))) THEN i
    ELSE FirstInvalidField(rows, filters, i + 1)

\* a faulty variant of lines 1050-1057: the check of lines 1055-1057 left out
CheckTextFiltersWithoutValues(rows, filters) ==
    IF filters = <<>> THEN "filters dictionary cannot be empty"
    ELSE IF rows = <<>> THEN "IndexError"
    ELSE IF FirstInvalidField(rows, filters, 1) # 0 THEN "not a valid response field"
    ELSE ""

\* lines 1050-1057: the checks of filter_responses_by_text, in the code's order
CheckTextFilters(rows, filters) ==
    IF filters = <<>> THEN "filters dictionary cannot be empty"
    ELSE IF rows = <<>> THEN "IndexError"
    ELSE IF FirstInvalidField(rows, filters, 1) # 0 THEN "not a valid response field"
    ELSE IF \E i \in 1..Len(filters) : ValuesOf(filters[i]) = <<>>
         THEN "values cannot be empty"
    ELSE ""

\* lines 1100-1107: the checks of filter_responses_by_date, in the code's order
CheckDateFilters(rows, filters) ==
    IF filters = <<>> THEN "filters dictionary cannot be empty"
    ELSE IF rows = <<>> THEN "IndexError"
    ELSE IF FirstInvalidField(rows, filters, 1) # 0 THEN "not a valid response field"
    ELSE IF \E i \in 1..Len(filters) : Len(ValuesOf(filters[i])) # 2
         THEN "value must be ['date', 'before/after']"
    ELSE ""

RECURSIVE TextPassesAnyItem(_, _, _)
\* a faulty variant of lines 1072-1076: the loop left at the first hit, so that
\* a record passes once one field matches
TextPassesAnyItem(data, filters, i) ==
    IF i > Len(filters) THEN FALSE
    ELSE IF data[FieldOf(filters[i])] \in Range(ValuesOf(filters[i])) THEN TRUE
    ELSE TextPassesAnyItem(data, filters, i + 1)

RECURSIVE TextPasses(_, _, _)
\* lines 1072-1076: the loop over the filter's items, left at the first miss
TextPasses(data, filters, i) ==
    IF i > Len(filters) THEN TRUE
    ELSE IF data[FieldOf(filters[i])] \notin Range(ValuesOf(filters[i])) THEN FALSE
    ELSE TextPasses(data, filters, i + 1)

RECURSIVE TextRows(_, _, _, _)
\* lines 1070-1079: the loop over self.responses
TextRows(rows, filters, i, filtered_responses) ==
    IF i > Len(rows) THEN filtered_responses
    ELSE TextRows(rows, filters, i + 1,
                  IF TextPasses(rows[i], filters, 1)
                  THEN Append(filtered_responses, rows[i])
                  ELSE filtered_responses)

\* Series.isin(values) on one cell: the values are str, a number matches none
PdIsIn(cell, values) == cell[1] = "str" /\ cell[2] \in Range(values)

\* lines 1059-1064: one mask per item, then the frame cut down by each mask
TextTable(table, filters) ==
    LET keep == {i \in 1..Len(table) :
                    \A k \in 1..Len(filters) :
                        PdIsIn(table[i][FieldOf(filters[k])], ValuesOf(filters[k]))}
        F[i \in 0..Len(table)] ==
            IF i = 0 THEN <<>>
            ELSE IF i \in keep THEN Append(F[i - 1], table[i]) ELSE F[i - 1]
    IN  F[Len(table)]

RECURSIVE DatePasses(_, _, _)
\* lines 1128-1131: the loop over the filter's items, left at the first item
\* _compare_timestamps answers falsy for; its exception leaves the call
DatePasses(data, filters, i) ==
    IF i > Len(filters) THEN PyTrue
    ELSE LET c == _compare_timestamps(data[FieldOf(filters[i])],
                                      ValuesOf(filters[i])[1], ValuesOf(filters[i])[2])
         IN  IF c = Raised THEN Raised
             ELSE IF c # PyTrue THEN PyFalse
             ELSE DatePasses(data, filters, i + 1)

RECURSIVE DateRows(_, _, _, _)
\* lines 1125-1134: the loop over self.responses
DateRows(rows, filters, i, filtered_responses) ==
    IF i > Len(rows) THEN ReturnRows(filtered_responses)
    ELSE LET p == DatePasses(rows[i], filters, 1)
         IN  IF p = Raised THEN Raise("before/after not specified")
             ELSE DateRows(rows, filters, i + 1,
                           IF p = PyTrue THEN Append(filtered_responses, rows[i])
                           ELSE filtered_responses)

\* an object column compared with a str: str's order, which on timestamps of
\* this fixed-width format is the order of the instants
PdStrLess(a, b) == Strptime(a) < Strptime(b)
PdComparable(table, field, ref) ==
    Parses(ref) /\ \A i \in 1..Len(table) :
        table[i][field][1] = "str" /\ Parses(table[i][field][2])

\* line 1112: the mode check of the columnar path
PdModeRejected(mode) ==
    ~StartsWith(mode, <<"b", "e">>) /\ ~StartsWith(mode, <<"a">>)

\* lines 1114-1117: the mask of one item on one row
DateMask(cell, ref, mode) ==
    /\ StartsWith(mode, <<"b">>) => PdStrLess(cell[2], ref)
    /\ StartsWith(mode, <<"a">>) => PdStrLess(ref, cell[2])

\* lines 1109-1123
DateTable(table, filters, saveFilter) ==
    IF \E k \in 1..Len(filters) : PdModeRejected(ValuesOf(filters[k])[2])
    THEN Raise("value must be ['date', 'before/after']")
    ELSE IF \E k \in 1..Len(filters) :
                ~PdComparable(table, FieldOf(filters[k]), ValuesOf(filters[k])[1])
    THEN Raise("TypeError")
    ELSE LET keep == {i \in 1..Len(table) :
                        \A k \in 1..Len(filters) :
                            DateMask(table[i][FieldOf(filters[k])],
                                     ValuesOf(filters[k])[1], ValuesOf(filters[k])[2])}
             F[i \in 0..Len(table)] ==
                IF i = 0 THEN <<>>
                ELSE IF i \in keep THEN Append(F[i - 1], table[i]) ELSE F[i - 1]
         IN  ReturnTable(F[Len(table)], saveFilter)

----------------------------------------------------------------------------
(* The store, the calls and the log *)

\* the Survey's store fields and the local storage, as one value
Store(folder, file, rows, frame, d) ==
    [responseFolder |-> folder, responsesFile |-> file, responses |-> rows,
     responseDataframe |-> frame, disk |-> d]
store == Store(responseFolder, responsesFile, responses, responseDataframe, disk)

\* open(path): the file a path names
FileAt(d, path) == IF path = NoPath THEN NoFile ELSE d[path[1]]

\* class Filter, lines 1342-1344: an object that holds a filter spec; NoFilter
\* is the None a call passes for no existingFilter
NoFilter == [exists |-> FALSE, filter |-> <<>>]
Filter(filter) == [exists |-> TRUE, filter |-> filter]

\* a faulty variant of lines 1044-1045: the existingFilter not looked at
FiltersArgument(filters, existingFilter) == filters

\* lines 1044-1045 and 1094-1095: an existingFilter replaces the filters
FiltersUsed(filters, existingFilter) ==
    IF existingFilter.exists THEN existingFilter.filter ELSE filters

\* a public call and its arguments (filters: as lines 1044-1045 leave it)
Call(op, folderName, re_download, filters, existingFilter, dataFrame, saveFilter, response_id, returnNew, stage) ==
    [op |-> op, folderName |-> folderName, re_download |-> re_download,
     filters |-> filters, existingFilter |-> existingFilter,
     dataFrame |-> dataFrame, saveFilter |-> saveFilter,
     response_id |-> response_id, returnNew |-> returnNew, stage |-> stage]
NoCall == Call("none", None, FALSE, <<>>, NoFilter, FALSE, FALSE, "", FALSE, 1)

\* one network exchange: the request (kind, and the id in its URL) and the
\* server's answer (status, and the id the answer carries)
Exchange(kind, id, status, reply) ==
    [kind |-> kind, id |-> id, status |-> status, reply |-> reply, err |-> ""]
\* open(self.responsesFile), line 1000: the artifact is read
OpenedFile == [kind |-> "OPEN", id |-> "", status |-> "", reply |-> "", err |-> ""]
\* logging.error(e)
LoggedError(err) ==
    [kind |-> "ERROR", id |-> "", status |-> "", reply |-> "", err |-> err]
NetworkKinds == {"POST", "POLL", "FETCH", "DELETE", "PUT"}

ProgressIds == {"p1", "p2"}
FileIds == {"f1", "f2"}

\* where a call stands once it has run as far as `pc`
Outcome(s, nextPc, c, lg, res) ==
    [store |-> s, pc |-> nextPc, call |-> c, log |-> lg, result |-> res]

\* what get_responses returns: the rows, or None from its except branch
GotRows(rows) == [none |-> FALSE, rows |-> rows]
GotNone == [none |-> TRUE, rows |-> <<>>]

\* Survey._create_responses_dataframe, lines 1023-1030
create_responses_dataframe(s, lg) ==
    IF s.responsesFile = NoPath THEN [store |-> s, log |-> lg]
    ELSE IF ~FileAt(s.disk, s.responsesFile).exists
         THEN [store |-> s, log |-> Append(lg, LoggedError("FileNotFoundError"))]
         ELSE [store |-> [s EXCEPT !.responseDataframe =
                              Frame(ReadCsv(FileAt(s.disk, s.responsesFile).lines))],
               log |-> lg]

\* lines 1049-1079 of filter_responses_by_text
TextFilterResult(s, c) ==
    LET err == CheckTextFilters(s.responses, c.filters)
    IN  IF err # "" THEN Raise(err)
        ELSE IF c.dataFrame
             THEN IF ~s.responseDataframe.exists THEN Raise("TypeError")
                  ELSE ReturnTable(TextTable(s.responseDataframe.rows, c.filters),
                                   c.saveFilter)
             ELSE ReturnRows(TextRows(s.responses, c.filters, 1, <<>>))

\* lines 1099-1134 of filter_responses_by_date
DateFilterResult(s, c) ==
    LET err == CheckDateFilters(s.responses, c.filters)
    IN  IF err # "" THEN Raise(err)
        ELSE IF c.dataFrame
             THEN IF ~s.responseDataframe.exists THEN Raise("TypeError")
                  ELSE DateTable(s.responseDataframe.rows, c.filters, c.saveFilter)
             ELSE DateRows(s.responses, c.filters, 1, <<>>)

\* lines 1018-1021 of get_response: the first response of that id, or None
FindResponse(rows, response_id) ==
    IF \E i \in 1..Len(rows) : rows[i].ResponseId = response_id
    THEN LET i == CHOOSE k \in 1..Len(rows) :
                    /\ rows[k].ResponseId = response_id
                    /\ \A j \in 1..(k - 1) : rows[j].ResponseId # response_id
         IN  [kind |-> "response", rows |-> <<rows[i]>>, saved |-> FALSE, err |-> ""]
    ELSE ReturnNone

\* lines 998-1013 of get_responses: decode unless the rows are there
DecodeResponses(s, lg) ==
    IF s.responses # <<>> THEN [store |-> s, log |-> lg, got |-> GotRows(s.responses)]
    ELSE LET d == DecodeFile(FileAt(s.disk, s.responsesFile))
             s2 == [s EXCEPT !.responses = d.rows]
             opened == Append(lg, OpenedFile)
         IN  IF d.raised
             THEN [store |-> s2, log |-> Append(opened, LoggedError("decode failed")),
                   got |-> GotNone]
             ELSE [store |-> s2, log |-> opened, got |-> GotRows(d.rows)]

\* a faulty variant of the line 903 test: the export goes on with no folder
FolderAlwaysAssigned(s, folderName) == FALSE

\* line 903: neither a folderName argument nor a responseFolder
NoResponseFolder(s, folderName) == ~Truthy(folderName) /\ ~Truthy(s.responseFolder)

\* a faulty variant of the line 979 test: re_download is not looked at
ExportNeededWithoutFile(s, folderName, re_download) ==
    \/ (Truthy(folderName) /\ folderName # s.responseFolder)
    \/ s.responsesFile = NoPath

\* line 979: the condition under which get_responses calls _export_survey
ExportNeeded(s, folderName, re_download) ==
    \/ re_download
    \/ (Truthy(folderName) /\ folderName # s.responseFolder)
    \/ s.responsesFile = NoPath

RECURSIVE AfterGetResponses(_, _, _, _)
RECURSIVE get_responses(_, _, _, _, _)

\* the caller's code after its get_responses call has returned `got`
AfterGetResponses(s, c, lg, got) ==
    CASE c.op = "get_responses" ->
            Outcome(s, "done", c, lg, IF got.none THEN ReturnNone ELSE ReturnRows(got.rows))
      [] c.op = "get_response" ->
            Outcome(s, "done", c, lg, FindResponse(s.responses, c.response_id))
      [] c.op = "filter_responses_by_text" ->
            LET d == create_responses_dataframe(s, lg)
            IN  Outcome(d.store, "done", c, d.log, TextFilterResult(d.store, c))
      [] c.op = "filter_responses_by_date" ->
            LET d == create_responses_dataframe(s, lg)
            IN  Outcome(d.store, "done", c, d.log, DateFilterResult(d.store, c))
      [] c.op = "Response.delete" ->
            Outcome(s, "done", c, lg, ReturnBool(TRUE))
      [] c.op = "Response.update" ->
            IF ~c.returnNew THEN Outcome(s, "done", c, lg, ReturnBool(TRUE))
            ELSE IF c.stage = 1 /\ s.responses = <<>>
                 \* get_response(re_download=False), line 1016
                 THEN get_responses(s, [c EXCEPT !.stage = 2], lg, s.responseFolder, FALSE)
                 ELSE Outcome(s, "done", c, lg, FindResponse(s.responses, c.response_id))

\* Survey.get_responses, lines 978-997 with lines 903-908 of _export_survey: up
\* to the export request, or, with no export, to the return
get_responses(s, c, lg, folderName, re_download) ==
    IF ExportNeeded(s, folderName, re_download)
    THEN IF NoResponseFolder(s, folderName)
         THEN AfterGetResponses(s, c, Append(lg, LoggedError("No response folder assigned")),
                                GotNone)
         ELSE Outcome([s EXCEPT !.responseFolder =
                          IF Truthy(folderName) THEN folderName ELSE s.responseFolder],
                      "post", c, lg, NoResult)
    ELSE LET d == DecodeResponses(s, lg)
         IN  AfterGetResponses(d.store, c, d.log, d.got)

\* the except branch of get_responses, lines 1011-1013
GetResponsesFailed(s, c, lg, err) ==
    AfterGetResponses(s, c, Append(lg, LoggedError(err)), GotNone)

\* the variables after a step that ran as far as `o`
Becomes(o) ==
    /\ responseFolder' = o.store.responseFolder
    /\ responsesFile' = o.store.responsesFile
    /\ responses' = o.store.responses
    /\ responseDataframe' = o.store.responseDataframe
    /\ disk' = o.store.disk
    /\ pc' = o.pc
    /\ call' = o.call
    /\ log' = o.log
    /\ result' = o.result
    /\ UNCHANGED <<responsesIsNone, threads>>
    /\ UNCHANGED PagingVars /\ UNCHANGED <<SessionVars, copying>>

Idle == pc = "idle"

----------------------------------------------------------------------------
(* The export job: Survey._export_survey, lines 934-958 *)

\* the exchanges of the export job that is running: the log from its POST on
RECURSIVE LastPost(_, _)
LastPost(lg, i) ==
    IF i = 0 THEN 0 ELSE IF lg[i].kind = "POST" THEN i ELSE LastPost(lg, i - 1)
PollsOfJob(lg) ==
    Cardinality({i \in (LastPost(lg, Len(lg)) + 1)..Len(lg) : lg[i].kind = "POLL"})

\* line 938: the loop goes on while the status is none of these
TerminalStatuses == {"complete", "failed"}
PollAgain(downloadStatus) == downloadStatus \notin TerminalStatuses

\* a faulty variant of the line 945 test: no status makes the job raise
ExportNeverFailed(downloadStatus) == FALSE

\* line 945: the status the job raises on
ExportFailed(downloadStatus) == downloadStatus = "failed"

\* line 939: the id the status URL is built from
StatusUrlId(pid) == pid

\* a faulty variant of line 947: the file URL built from the id of the poll's
\* own URL, the progressId
FileUrlIdOfRequest(res) == res.id

\* line 947: the fileId the file URL is built from, out of the last poll's answer
FileUrlId(res) == res.reply

\* what the server may answer to a poll: a status, and with complete a fileId
PollAnswers ==
    {[status |-> st, fileId |-> ""] : st \in {"inProgress", "failed", "error"}}
        \cup {[status |-> "complete", fileId |-> f] : f \in FileIds}

\* lines 940-947 after the answer `res` to a poll
AfterPoll(s, c, lg, res) ==
    IF res.status = "error" THEN GetResponsesFailed(s, c, lg, "JSONDecodeError")
    ELSE IF PollAgain(res.status) THEN Outcome(s, "poll", c, lg, NoResult)
    ELSE IF ExportFailed(res.status) THEN GetResponsesFailed(s, c, lg, "export failed")
    ELSE Outcome(s, "fetch", c, lg, NoResult)

\* lines 954-958 and 997-1010: the archive extracted, the path recorded, the
\* rows dropped and decoded again
AfterFetch(s, c, lg, artifact) ==
    LET path == ResponsesPath(s.responseFolder, "csv")
        s2 == [s EXCEPT !.disk = [s.disk EXCEPT ![s.responseFolder] = File(artifact)],
                        !.responsesFile = path,
                        !.responses = <<>>]
        d == DecodeResponses(s2, lg)
    IN  AfterGetResponses(d.store, c, d.log, d.got)

\* lines 935-937: POST .../export-responses/
ExportPost ==
    /\ pc = "post"
    /\ \/ \E pid \in ProgressIds :
            /\ progressId' = pid
            /\ log' = Append(log, Exchange("POST", "", "ok", pid))
            /\ pc' = "poll"
            /\ UNCHANGED <<responseFolder, responsesFile, responses, responseDataframe,
                           disk, call, result, responsesIsNone, threads>>
            /\ UNCHANGED PagingVars /\ UNCHANGED <<SessionVars, copying>>
       \/ /\ Becomes(GetResponsesFailed(store, call,
                        Append(log, Exchange("POST", "", "error", "")), "KeyError"))
          /\ UNCHANGED progressId

\* lines 938-947: GET .../export-responses/{progressId}
ExportPoll ==
    /\ pc = "poll"
    /\ PollsOfJob(log) < MaxPolls
    /\ \E res \in PollAnswers :
          Becomes(AfterPoll(store, call,
                    Append(log, Exchange("POLL", StatusUrlId(progressId), res.status,
                                         res.fileId)), res))
    /\ UNCHANGED progressId

\* the data the server holds when an export is fetched
ArtOne ==
    Artifact(<<Row("R1", T1, T1, "A", "X"), Row("R2", T1, T3, "B", "X")>>)
ArtTwo ==
    Artifact(<<Row("R1", T1, T3, "A", "Y"), Row("R3", T3, T3, "A", "X")>>)
\* an export of a survey nobody has answered: the two header rows only
ArtEmpty == Artifact(<<>>)
ServerArtifacts == {ArtOne, ArtTwo, ArtEmpty}

\* lines 950-958: GET .../export-responses/{fileId}/file
ExportFetch ==
    /\ pc = "fetch"
    /\ LET url == Exchange("FETCH", FileUrlId(log[Len(log)]), "ok", "")
       IN  \/ \E artifact \in ServerArtifacts :
                Becomes(AfterFetch(store, call, Append(log, url), artifact))
           \/ Becomes(GetResponsesFailed(store, call,
                        Append(log, [url EXCEPT !.status = "error"]), "BadZipFile"))
    /\ UNCHANGED progressId

----------------------------------------------------------------------------
(* The public calls *)

FolderNames == Folders \cup {None}

\* Survey.get_responses(folderName, re_download)
CallGetResponses(folderName, re_download) ==
    /\ Idle
    /\ Becomes(get_responses(store,
                 Call("get_responses", folderName, re_download, <<>>, NoFilter, FALSE, FALSE,
                      "", FALSE, 1),
                 <<>>, folderName, re_download))
    /\ progressId' = None

\* Survey.get_response(response_id, re_download), lines 1015-1021
CallGetResponse(response_id, re_download) ==
    /\ Idle
    /\ LET c == Call("get_response", None, re_download, <<>>, NoFilter, FALSE, FALSE,
                     response_id, FALSE, 1)
       IN  IF re_download \/ responses = <<>>
           THEN Becomes(get_responses(store, c, <<>>, responseFolder, re_download))
           ELSE Becomes(AfterGetResponses(store, c, <<>>, GotRows(responses)))
    /\ progressId' = None

\* a faulty variant of the line 1046 test: the store fetched on every call
RefetchAlways(c, frame) == TRUE

\* lines 1046 and 1096: the condition under which a filter fetches the store
RefetchNeeded(c, frame) == c.re_download \/ Truthy(c.folderName) \/ ~frame.exists

\* lines 1046-1048 and 1096-1098: the store is fetched again first, or not
FilterCall(c) ==
    IF RefetchNeeded(c, responseDataframe)
    THEN get_responses(store, c, <<>>, c.folderName, c.re_download)
    ELSE IF c.op = "filter_responses_by_text"
         THEN Outcome(store, "done", c, <<>>, TextFilterResult(store, c))
         ELSE Outcome(store, "done", c, <<>>, DateFilterResult(store, c))

\* Survey.filter_responses_by_text(filters, existingFilter, saveFilter, folderName,
\* re_download, dataFrame)
CallFilterText(filters, existingFilter, saveFilter, folderName, re_download, dataFrame) ==
    /\ Idle
    /\ Becomes(FilterCall(Call("filter_responses_by_text", folderName, re_download,
                               FiltersUsed(filters, existingFilter), existingFilter,
                               dataFrame, saveFilter, "", FALSE, 1)))
    /\ progressId' = None

\* Survey.filter_responses_by_date(filters, existingFilter, saveFilter, folderName,
\* re_download, dataFrame)
CallFilterDate(filters, existingFilter, saveFilter, folderName, re_download, dataFrame) ==
    /\ Idle
    /\ Becomes(FilterCall(Call("filter_responses_by_date", folderName, re_download,
                               FiltersUsed(filters, existingFilter), existingFilter,
                               dataFrame, saveFilter, "", FALSE, 1)))
    /\ progressId' = None

\* Response.delete() and Response.update() of a Response of the row sequence:
\* lines 1379-1384 and 1395-1399, up to the request
CallResponse(op, response_id, returnNew) ==
    /\ Idle
    /\ \E i \in 1..Len(responses) : responses[i].ResponseId = response_id
    /\ pc' = op
    /\ call' = Call(op, None, FALSE, <<>>, NoFilter, FALSE, FALSE, response_id, returnNew, 1)
    /\ log' = <<>>
    /\ result' = NoResult
    /\ progressId' = None
    /\ UNCHANGED <<responseFolder, responsesFile, responses, responseDataframe, disk,
                   responsesIsNone, threads>>
    /\ UNCHANGED PagingVars /\ UNCHANGED <<SessionVars, copying>>

\* lines 1385-1388: DELETE .../responses/{id}, then the rows fetched again
DeleteRequest ==
    /\ pc = "Response.delete"
    /\ \/ Becomes(get_responses(store, call,
                    Append(log, Exchange("DELETE", call.response_id, "ok", "")),
                    None, TRUE))
       \/ Becomes(Outcome(store, "done", call,
                    Append(log, Exchange("DELETE", call.response_id, "error", "")),
                    ReturnBool(FALSE)))
    /\ UNCHANGED progressId

\* lines 1398-1407: PUT .../responses/{id}, then the rows fetched again
PutRequest ==
    /\ pc = "Response.update"
    /\ \/ Becomes(get_responses(store, call,
                    Append(log, Exchange("PUT", call.response_id, "ok", "")),
                    None, TRUE))
       \/ Becomes(Outcome(store, "done", call,
                    Append(log, Exchange("PUT", call.response_id, "error", "")),
                    IF call.returnNew THEN ReturnNone ELSE ReturnBool(FALSE)))
    /\ UNCHANGED progressId

\* the call has returned or raised: the caller has its result, the frame is gone
Return ==
    /\ pc = "done"
    /\ pc' = "idle"
    /\ call' = NoCall
    /\ log' = <<>>
    /\ result' = NoResult
    /\ progressId' = None
    /\ UNCHANGED <<responseFolder, responsesFile, responses, responseDataframe, disk,
                   responsesIsNone, threads>>
    /\ UNCHANGED PagingVars /\ UNCHANGED <<SessionVars, copying>>

\* the attributes that cache a paginated list, and the getter of each
CacheAttrs ==
    {"surveys", "groups", "mailing_lists", "libraries", "Library.surveys",
     "MailingList.contacts"}
\* lines 93-97, 452 and 502: every cached list starts empty
NoneCached == [a \in CacheAttrs |-> <<>>]

\* what a getter hands back: the list, or an exception
NoList == [kind |-> "pending", elements |-> <<>>, err |-> ""]
ReturnList(elements) == [kind |-> "list", elements |-> elements, err |-> ""]
RaiseInGetter(err) == [kind |-> Raised, elements |-> <<>>, err |-> err]

\* where a request is sent: the offset of the query string, or a next-page URL
\* (None: the getter's own URL)
Cursor(offset, url) == [offset |-> offset, url |-> url]

\* the frame of a paginated getter: its arguments, the carried list, the cursor
\* of its next request, the cursors it has requested, the pages it was
\* answered, what it returned, and the number of getter calls made so far
GetterFrame(at, getter, forceUpdate, carried, cursor, requests, pages, returned, calls) ==
    [pc |-> at, getter |-> getter, forceUpdate |-> forceUpdate, carried |-> carried,
     cursor |-> cursor, requests |-> requests, pages |-> pages, returned |-> returned,
     calls |-> calls]
NoGetter ==
    GetterFrame("idle", "none", FALSE, <<>>, Cursor(0, None), <<>>, <<>>, NoList, 0)

\* what Survey.copy hands back: a Survey (its id), None, True or False
CopyResult(kind, id) == [kind |-> kind, id |-> id]
NoSurvey == CopyResult("None", <<>>)

\* the frame of Survey.copy: where it stands, its arguments, the id the copy
\* POST answered, the local retry_limit, the get_survey(forceUpdate=True)
\* calls made so far, the one of them that found the survey (0: none), and
\* what the call returned
CopyFrame(at, activateNow, returnNewSurvey, new_survey_id, retry_limit, lookups, found_at, returned) ==
    [pc |-> at, activateNow |-> activateNow, returnNewSurvey |-> returnNewSurvey,
     new_survey_id |-> new_survey_id, retry_limit |-> retry_limit,
     lookups |-> lookups, found_at |-> found_at, returned |-> returned]
NoCopy == CopyFrame("idle", FALSE, FALSE, <<>>, 0, 0, 0, CopyResult("pending", <<>>))

\* the API tokens, and the one Qualtrics object of the specifications of a
\* single session: lines 85-90 have set the global header from its token
Tokens == {"token1", "token2"}
OneSession == <<"token1">>

\* the threads that call get_responses on the one Survey
Threads == {"t1", "t2"}

\* a thread's frame in get_responses: where it stands, the locals progressId,
\* fileId and rows, the polls it has made, and what its call returned
ThreadFrame(at, pid, fid, rows, polls, returned) ==
    [pc |-> at, progressId |-> pid, fileId |-> fid, rows |-> rows, polls |-> polls,
     returned |-> returned]
NotCalled == ThreadFrame("start", None, "", <<>>, 0, NoResult)
NoThreads == [t \in Threads |-> NotCalled]

----------------------------------------------------------------------------
(* Spec: one Survey, as Qualtrics.get_surveys constructs it, and its calls *)

ResponseIds == {"R1", "R2", "R3"}

\* the filter specs the calls of Spec are made with
SpecTextFilters ==
    { <<>>, << <<"Q1", <<"A">>>> >>, << <<"Q2", <<>>>> >> }
SpecDateFilters ==
    { <<>>, << <<"RecordedDate", <<T2, Chars_before>>>> >>,
      << <<"RecordedDate", <<T2>>>> >> }

\* Survey.__init__, lines 860-884, with responseFile=None: lines 199 and 470
Init ==
    /\ responseFolder \in FolderNames
    /\ responsesFile = NoPath
    /\ responses = <<>>
    /\ responseDataframe = NoFrame
    /\ disk = [f \in Folders |-> NoFile]
    /\ pc = "idle"
    /\ call = NoCall
    /\ progressId = None
    /\ log = <<>>
    /\ result = NoResult
    /\ responsesIsNone = FALSE
    /\ threads = NoThreads
    /\ qualtrics = NoneCached
    /\ paging = NoGetter
    /\ header = OneSession[1]
    /\ sessions = OneSession /\ copying = NoCopy

Next ==
    \/ \E folderName \in FolderNames, re_download \in BOOLEAN :
            CallGetResponses(folderName, re_download)
    \/ \E response_id \in ResponseIds, re_download \in BOOLEAN :
            CallGetResponse(response_id, re_download)
    \/ \E filters \in SpecTextFilters, folderName \in FolderNames,
          re_download \in BOOLEAN, dataFrame \in BOOLEAN :
            CallFilterText(filters, NoFilter, FALSE, folderName, re_download, dataFrame)
    \/ \E filters \in SpecDateFilters, folderName \in FolderNames,
          re_download \in BOOLEAN, dataFrame \in BOOLEAN :
            CallFilterDate(filters, NoFilter, FALSE, folderName, re_download, dataFrame)
    \/ \E response_id \in ResponseIds :
            CallResponse("Response.delete", response_id, FALSE)
    \/ \E response_id \in ResponseIds, returnNew \in BOOLEAN :
            CallResponse("Response.update", response_id, returnNew)
    \/ ExportPost
    \/ ExportPoll
    \/ ExportFetch
    \/ DeleteRequest
    \/ PutRequest
    \/ Return

Spec == Init /\ [][Next]_vars

----------------------------------------------------------------------------
(* TextSpec and DateSpec: the filters, on every store within the bounds *)

\* the ResponseId of the i-th response of an export
IdAt(i) == <<"R1", "R2", "R3", "R4", "R5">>[i]

Q1Values == {"A", "B", ""}
Q2Values == {"X", "Y", "1"}

\* the exports of up to MaxTextRows responses that differ in their answers
TextArtifacts ==
    UNION {{Artifact([i \in 1..n |-> Row(IdAt(i), T1, T2, a[i][1], a[i][2])]) :
                a \in [1..n -> Q1Values \X Q2Values]} : n \in 0..MaxTextRows}

\* the exports of up to MaxDateRows responses that differ in their dates
DateArtifacts ==
    UNION {{Artifact([i \in 1..n |-> Row(IdAt(i), t[i][1], t[i][2], "A", "X")]) :
                t \in [1..n -> Stamps \X Stamps]} : n \in 0..MaxDateRows}

\* the dicts over two fields: no item, one item, or both items in either order
Dicts(f1, lists1, f2, lists2) ==
    {<<>>}
        \cup {<< <<f1, v>> >> : v \in lists1}
        \cup {<< <<f2, v>> >> : v \in lists2}
        \cup {<< <<f1, v>>, <<f2, w>> >> : v \in lists1, w \in lists2}
        \cup {<< <<f2, w>>, <<f1, v>> >> : v \in lists1, w \in lists2}

\* a field that is no column of the export
UnknownField == "Q9"

TextFilters ==
    Dicts("Q1", {<<>>, <<"A">>, <<"B">>, <<"A", "B">>},
          "Q2", {<<>>, <<"X">>, <<"1">>, <<"X", "1">>})
        \cup { << <<UnknownField, <<"A">>>> >>, << <<UnknownField, <<>>>> >>,
               << <<"Q1", <<"A">>>>, <<UnknownField, <<"A">>>> >> }

BeforeAfterStrings ==
    {Chars_b, Chars_a, Chars_before, Chars_after, Chars_Before, Chars_x}
DateLists == {<<>>, <<T2>>} \cup {<<T2, m>> : m \in BeforeAfterStrings}
DateFilters == Dicts("StartDate", DateLists, "RecordedDate", DateLists)

\* a Survey whose export is on disk, decoded by get_responses (lines 998-1010)
\* and read by _create_responses_dataframe (line 1026)
Loaded(artifact) ==
    /\ responseFolder = "out1"
    /\ responsesFile = ResponsesPath("out1", "csv")
    /\ disk = [f \in Folders |-> IF f = "out1" THEN File(artifact) ELSE NoFile]
    /\ responses = DecodeFile(File(artifact)).rows
    /\ responseDataframe = Frame(ReadCsv(artifact))
    /\ pc = "idle"
    /\ call = NoCall
    /\ progressId = None
    /\ log = <<>>
    /\ result = NoResult
    /\ responsesIsNone = FALSE
    /\ threads = NoThreads
    /\ qualtrics = NoneCached
    /\ paging = NoGetter
    /\ header = OneSession[1]
    /\ sessions = OneSession /\ copying = NoCopy

TextInit == \E artifact \in TextArtifacts : Loaded(artifact)

TextNext ==
    \/ \E filters \in TextFilters, saveFilter \in BOOLEAN, dataFrame \in BOOLEAN :
            CallFilterText(filters, NoFilter, saveFilter, None, FALSE, dataFrame)
    \/ Return

TextSpec == TextInit /\ [][TextNext]_vars

DateInit == \E artifact \in DateArtifacts : Loaded(artifact)

DateNext ==
    \/ \E filters \in DateFilters, saveFilter \in BOOLEAN, dataFrame \in BOOLEAN :
            CallFilterDate(filters, NoFilter, saveFilter, None, FALSE, dataFrame)
    \/ Return

DateSpec == DateInit /\ [][DateNext]_vars

----------------------------------------------------------------------------
(* Properties of the export job, under Spec *)

IsPoll(e) == e.kind = "POLL"
FilterOps == {"filter_responses_by_text", "filter_responses_by_date"}
NetworkExchanges(lg) == {i \in 1..Len(lg) : lg[i].kind \in NetworkKinds}

\* C1: when a status poll answers 'failed', _export_survey raises (the error
\* get_responses logs is the next record of the call), no later poll or fetch
\* belongs to that job (one follows only after another job's POST), and the
\* step of that poll leaves responsesFile as it was.
C1_FailedPollEndsTheJob ==
    /\ [](\A i \in 1..Len(log) :
            (IsPoll(log[i]) /\ log[i].status = "failed") =>
                /\ i < Len(log)
                /\ log[i + 1] = LoggedError("export failed")
                /\ \A j \in (i + 1)..Len(log) :
                      log[j].kind \in {"POLL", "FETCH"} =>
                          \E k \in (i + 1)..(j - 1) : log[k].kind = "POST")
    /\ [][(/\ pc = "poll"
           /\ Len(log') > Len(log)
           /\ IsPoll(log'[Len(log) + 1])
           /\ log'[Len(log) + 1].status = "failed")
          => (responsesFile' = responsesFile /\ pc' \notin {"poll", "fetch"})]_vars

\* a get_responses call has returned None after a poll answered 'failed'
C1_Witness ==
    /\ pc = "done"
    /\ call.op = "get_responses"
    /\ result = ReturnNone
    /\ \E i \in 1..Len(log) : IsPoll(log[i]) /\ log[i].status = "failed"

\* C2: the exchanges of a job are ordered: a poll follows the job's POST or a
\* poll answered with a non-terminal status, and carries the progressId the
\* POST returned; the fetch follows at once the poll answered 'complete' and
\* carries the fileId of that answer; nothing of the job follows the fetch.
C2_JobExchangesOrdered ==
    \A i \in 1..Len(log) :
        /\ IsPoll(log[i]) =>
              /\ i > 1
              /\ \/ /\ log[i - 1].kind = "POST"
                    /\ log[i - 1].status = "ok"
                    /\ log[i].id = log[i - 1].reply
                 \/ /\ IsPoll(log[i - 1])
                    /\ log[i - 1].status = "inProgress"
                    /\ log[i].id = log[i - 1].id
        /\ log[i].kind = "FETCH" =>
              /\ i > 1
              /\ IsPoll(log[i - 1])
              /\ log[i - 1].status = "complete"
              /\ log[i].id = log[i - 1].reply
              /\ log[i].id \in FileIds
        /\ (IsPoll(log[i]) /\ log[i].status = "complete" /\ i < Len(log)) =>
              log[i + 1].kind = "FETCH"
        /\ (log[i].kind = "POST" /\ i > 1) =>
              log[i - 1].kind \notin {"POST", "POLL"}

\* a job has run to its end: its POST, polls answered 'inProgress' and then
\* 'complete', the fetch, the path recorded, and the artifact read
C2_Witness ==
    /\ pc = "done"
    /\ Len(log) = 5
    /\ log[5] = OpenedFile
    /\ log[1].kind = "POST"
    /\ IsPoll(log[2]) /\ log[2].status = "inProgress"
    /\ IsPoll(log[3]) /\ log[3].status = "complete"
    /\ log[4].kind = "FETCH" /\ log[4].status = "ok"
    /\ responsesFile # NoPath

\* C3: the poll loop is bounded by the caller: a call whose polls were all
\* answered with a non-terminal status is no longer polling once it has issued
\* as many polls as the caller allows.
C3_PollLoopBounded ==
    (pc = "poll" /\ \A i \in 1..Len(log) : IsPoll(log[i]) => log[i].status = "inProgress")
        => PollsOfJob(log) < CallerPollLimit

----------------------------------------------------------------------------
(* Properties of the response store, under Spec *)

\* C4: when a public call has returned, the rows and the table (once built)
\* are made of the same export.
C4_RowsAndTableOfOneExport ==
    (pc = "done" /\ responseDataframe.exists) =>
        \E artifact \in ServerArtifacts :
            /\ responses = DecodeFile(File(artifact)).rows
            /\ responseDataframe = Frame(ReadCsv(artifact))

\* the records logging.error leaves of a failed export job
ExportErrors ==
    {"export failed", "KeyError", "JSONDecodeError", "BadZipFile",
     "No response folder assigned"}
ExportFailedIn(lg) ==
    \E i \in 1..Len(lg) : lg[i].kind = "ERROR" /\ lg[i].err \in ExportErrors

\* C5: a get_responses or filter call whose export job failed ends with an
\* error: it returns no value.
C5_ExportFailureRaises ==
    (/\ pc = "done"
     /\ call.op \in FilterOps \cup {"get_responses"}
     /\ ExportFailedIn(log))
        => result.kind = Raised

\* an empty spec, a field with an empty list, a date list not of length 2
InvalidSpec(c) ==
    \/ c.filters = <<>>
    \/ \E i \in 1..Len(c.filters) : ValuesOf(c.filters[i]) = <<>>
    \/ /\ c.op = "filter_responses_by_date"
       /\ \E i \in 1..Len(c.filters) : Len(ValuesOf(c.filters[i])) # 2

\* C9: a filter call with an invalid spec issues no network request.
C9_InvalidSpecBeforeNetwork ==
    (call.op \in FilterOps /\ InvalidSpec(call)) => NetworkExchanges(log) = {}

----------------------------------------------------------------------------
(* Properties of the date filter, under DateSpec *)

FirstLetter(mode) == IF mode = <<>> THEN "" ELSE Lower(Head(mode))
WellFormedDateItem(item) ==
    Len(ValuesOf(item)) = 2 /\ FirstLetter(ValuesOf(item)[2]) \in {"b", "a"}
DateCallDone == pc = "done" /\ call.op = "filter_responses_by_date"

\* the record is strictly earlier than the reference (b...) or later (a...)
MeetsDateItem(data, item) ==
    IF FirstLetter(ValuesOf(item)[2]) = "b"
    THEN Strptime(data[FieldOf(item)]) < Strptime(ValuesOf(item)[1])
    ELSE Strptime(data[FieldOf(item)]) > Strptime(ValuesOf(item)[1])
MeetsDateFilters(data) ==
    \A k \in 1..Len(call.filters) : MeetsDateItem(data, call.filters[k])

\* C6: in row-sequence mode the date filter returns exactly the records that
\* are, at every field of the filter, strictly earlier than the reference
\* (mode b.../B...) or strictly later (mode a.../A...).
C6_DateRowsBeforeAfter ==
    (/\ DateCallDone
     /\ ~call.dataFrame
     /\ call.filters # <<>>
     /\ responses # <<>>
     /\ \A k \in 1..Len(call.filters) : WellFormedDateItem(call.filters[k]))
        => /\ result.kind = "rows"
           /\ result.rows = SelectSeq(responses, MeetsDateFilters)

\* C7: the columnar mode matches the ResponseIds the row-sequence mode matches
\* on the same store and filter.
C7_DateModesAgree ==
    (/\ DateCallDone
     /\ call.dataFrame
     /\ call.filters # <<>>
     /\ responses # <<>>
     /\ \A k \in 1..Len(call.filters) : WellFormedDateItem(call.filters[k]))
        => LET rowwise == DateFilterResult(store, [call EXCEPT !.dataFrame = FALSE])
           IN  /\ result.kind = "table"
               /\ rowwise.kind = "rows"
               /\ {result.rows[i].ResponseId[2] : i \in 1..Len(result.rows)}
                    = {rowwise.rows[i].ResponseId : i \in 1..Len(rowwise.rows)}

\* C10: a date filter with a list not of length 2, or a mode that begins with
\* neither b nor a, ends with an error in both modes.
C10_MalformedDateItemRaises ==
    (DateCallDone /\ \E k \in 1..Len(call.filters) : ~WellFormedDateItem(call.filters[k]))
        => result.kind = Raised

----------------------------------------------------------------------------
(* Properties of the text filter, under TextSpec *)

MeetsTextFilters(data) ==
    \A k \in 1..Len(call.filters) :
        \E j \in 1..Len(ValuesOf(call.filters[k])) :
            data[FieldOf(call.filters[k])] = ValuesOf(call.filters[k])[j]

\* C8: in row-sequence mode the text filter returns exactly the records whose
\* value is, at every field of the filter, one of that field's values, in the
\* store's order; a call whose checks pass does return.
C8_TextRowsExact ==
    (pc = "done" /\ call.op = "filter_responses_by_text" /\ ~call.dataFrame) =>
        /\ result.kind # Raised =>
              /\ result.kind = "rows"
              /\ result.rows = SelectSeq(responses, MeetsTextFilters)
        /\ CheckTextFilters(responses, call.filters) = "" => result.kind = "rows"

\* records (A,X), (B,X), (A,Y) filtered by {Q1: [A], Q2: [X]}: the first only
C8_Witness ==
    /\ pc = "done"
    /\ call.op = "filter_responses_by_text"
    /\ ~call.dataFrame
    /\ call.filters = << <<"Q1", <<"A">>>>, <<"Q2", <<"X">>>> >>
    /\ Len(responses) = 3
    /\ <<responses[1].Q1, responses[1].Q2>> = <<"A", "X">>
    /\ <<responses[2].Q1, responses[2].Q2>> = <<"B", "X">>
    /\ <<responses[3].Q1, responses[3].Q2>> = <<"A", "Y">>
    /\ result = ReturnRows(<<responses[1]>>)

\* the messages of the three checks of lines 1050-1057, and the IndexError of
\* responses[0] on a store with no record
TextSpecErrors ==
    {"filters dictionary cannot be empty", "not a valid response field",
     "values cannot be empty", "IndexError"}
InvalidTextSpec(rows, filters) ==
    \/ filters = <<>>
    \/ \E k \in 1..Len(filters) : FieldOf(filters[k]) \notin Fields
    \/ \E k \in 1..Len(filters) : ValuesOf(filters[k]) = <<>>

\* C11: filter_responses_by_text ends with an error of its checks, and returns
\* no result, whenever the spec is empty, names a field that is no column of
\* the store, or maps a field to an empty list, in both modes; on a store that
\* has records the error is one of the three messages of the checks.
C11_InvalidTextSpecRaises ==
    (/\ pc = "done"
     /\ call.op = "filter_responses_by_text"
     /\ InvalidTextSpec(responses, call.filters))
        => /\ result.kind = Raised
           /\ result.rows = <<>>
           /\ result.err \in TextSpecErrors
           /\ responses # <<>> => result.err # "IndexError"

\* the columnar call with {Q1: []} on a store with records has raised
C11_Witness ==
    /\ pc = "done"
    /\ call.op = "filter_responses_by_text"
    /\ call.dataFrame
    /\ call.filters = << <<"Q1", <<>>>> >>
    /\ responses # <<>>
    /\ responses[1].Q1 # ""
    /\ result = Raise("values cannot be empty")

----------------------------------------------------------------------------
(* Properties of get_responses, under Spec *)

\* the call get_responses(folderName, re_download=False) made on store `s`
SecondGetResponses(s, folderName) ==
    get_responses(s, Call("get_responses", folderName, FALSE, <<>>, NoFilter, FALSE, FALSE,
                          "", FALSE, 1),
                  <<>>, folderName, FALSE)

\* C12: after a get_responses call with re_download=False has returned its
\* rows, the same call made again returns the same rows, issues no request
\* and does not read the artifact again.
C12_SecondCallReadsNothing ==
    (/\ pc = "done"
     /\ call.op = "get_responses"
     /\ ~call.re_download
     /\ result.kind = "rows")
        => LET second == SecondGetResponses(store, call.folderName)
           IN  /\ second.pc = "done"
               /\ second.result = result
               /\ second.log = <<>>

ExportPcs == {"post", "poll", "fetch"}

\* C13: with neither a folderName argument nor a responseFolder, _export_survey
\* raises before any request: no export job runs without a folder, and a call
\* made in that state ends in the same step with the error logged, no request
\* issued, and responseFolder and responsesFile as they were.
C13_NoFolderRaisesBeforeRequest ==
    /\ [](pc \in ExportPcs => Truthy(responseFolder))
    /\ [][(/\ Idle
           /\ ~Truthy(responseFolder)
           /\ pc' # "idle"
           /\ ~Truthy(call'.folderName))
          => (/\ pc' = "done"
              /\ log' = <<LoggedError("No response folder assigned")>>
              /\ NetworkExchanges(log') = {}
              /\ responseFolder' = responseFolder
              /\ responsesFile' = responsesFile)]_vars

\* get_responses() on a survey with no folder has returned with that error
C13_Witness ==
    /\ pc = "done"
    /\ call.op = "get_responses"
    /\ ~Truthy(call.folderName)
    /\ ~Truthy(responseFolder)
    /\ responsesFile = NoPath
    /\ log = <<LoggedError("No response folder assigned")>>

\* C14: get_responses called without a folderName calls _export_survey exactly
\* when re_download is true or no artifact path is recorded; with a path
\* recorded and re_download false it issues no request, leaves the artifact
\* as it is and returns the rows of that artifact.
C14_ExportIffForcedOrNoFile ==
    [][(/\ Idle
        /\ call'.op = "get_responses"
        /\ ~Truthy(call'.folderName))
       => IF call'.re_download \/ responsesFile = NoPath
          THEN \/ pc' = "post"
               \/ /\ pc' = "done"
                  /\ log' = <<LoggedError("No response folder assigned")>>
          ELSE /\ pc' = "done"
               /\ NetworkExchanges(log') = {}
               /\ responsesFile' = responsesFile
               /\ disk' = disk
               /\ result' = ReturnRows(DecodeFile(FileAt(disk, responsesFile)).rows)]_vars

\* get_responses() on a survey whose artifact is recorded and decoded has
\* returned the rows it had, with no request and no read
C14_Witness ==
    /\ pc = "done"
    /\ call.op = "get_responses"
    /\ ~Truthy(call.folderName)
    /\ ~call.re_download
    /\ responsesFile # NoPath
    /\ log = <<>>
    /\ result = ReturnRows(responses)
    /\ responses # <<>>

----------------------------------------------------------------------------
(* ThreadSpec: two threads that each call get_responses(re_download=True) on *)
(* the one Survey. The code takes no lock, so a thread may be preempted      *)
(* between any two statements; the steps below are cut at the blocking calls *)
(* (the requests, open) and at the statements that touch self.responses.     *)

\* most status polls of one thread's export job
MaxThreadPolls == 1

\* the variables of the single-threaded calls, which no thread step touches
SingleCallVars == <<pc, call, progressId, log, result>>

ThreadBecomes(t, frame) == threads' = [threads EXCEPT ![t] = frame]
ThreadReturns(t, res) ==
    ThreadBecomes(t, [threads[t] EXCEPT !.pc = "done", !.returned = res])

\* lines 979-981 and 903-908: re_download is true, the folder is assigned
ThreadCall(t) ==
    /\ threads[t].pc = "start"
    /\ ThreadBecomes(t, [threads[t] EXCEPT !.pc = "post"])
    /\ UNCHANGED <<responseFolder, responsesFile, responses, responseDataframe, disk,
                   responsesIsNone>>
    /\ UNCHANGED SingleCallVars
    /\ UNCHANGED PagingVars /\ UNCHANGED <<SessionVars, copying>>

\* lines 935-937
ThreadPost(t) ==
    /\ threads[t].pc = "post"
    /\ \E pid \in ProgressIds :
          ThreadBecomes(t, [threads[t] EXCEPT !.pc = "poll", !.progressId = pid])
    /\ UNCHANGED <<responseFolder, responsesFile, responses, responseDataframe, disk,
                   responsesIsNone>>
    /\ UNCHANGED SingleCallVars
    /\ UNCHANGED PagingVars /\ UNCHANGED <<SessionVars, copying>>

\* lines 938-947, and on 'failed' lines 945-946 and 1011-1013
ThreadPoll(t) ==
    /\ threads[t].pc = "poll"
    /\ threads[t].polls < MaxThreadPolls
    /\ \E res \in PollAnswers :
          /\ res.status # "error"
          /\ LET polled == [threads[t] EXCEPT !.polls = @ + 1]
             IN  IF PollAgain(res.status) THEN ThreadBecomes(t, polled)
                 ELSE IF ExportFailed(res.status)
                      THEN ThreadBecomes(t, [polled EXCEPT !.pc = "done",
                                                           !.returned = ReturnNone])
                      ELSE ThreadBecomes(t, [polled EXCEPT !.pc = "fetch",
                                                           !.fileId = res.fileId])
    /\ UNCHANGED <<responseFolder, responsesFile, responses, responseDataframe, disk,
                   responsesIsNone>>
    /\ UNCHANGED SingleCallVars
    /\ UNCHANGED PagingVars /\ UNCHANGED <<SessionVars, copying>>

\* lines 950-958 and 997: the archive extracted over the folder's file, the
\* path recorded, self.responses = None
ThreadFetch(t) ==
    /\ threads[t].pc = "fetch"
    /\ \E artifact \in ServerArtifacts :
          disk' = [disk EXCEPT ![responseFolder] = File(artifact)]
    /\ responsesFile' = ResponsesPath(responseFolder, "csv")
    /\ responses' = <<>>
    /\ responsesIsNone' = TRUE
    /\ ThreadBecomes(t, [threads[t] EXCEPT !.pc = "decode"])
    /\ UNCHANGED <<responseFolder, responseDataframe>>
    /\ UNCHANGED SingleCallVars
    /\ UNCHANGED PagingVars /\ UNCHANGED <<SessionVars, copying>>

\* lines 998-1002: with the rows falsy, self.responses = [] and the file read
\* into the local rows; with rows there (another thread's), line 1010
ThreadDecode(t) ==
    /\ threads[t].pc = "decode"
    /\ IF responses # <<>>
       THEN /\ ThreadReturns(t, ReturnRows(responses))
            /\ UNCHANGED <<responses, responsesIsNone>>
       ELSE /\ responses' = <<>>
            /\ responsesIsNone' = FALSE
            /\ ThreadBecomes(t, [threads[t] EXCEPT
                    !.pc = "append", !.rows = FileAt(disk, responsesFile).lines])
    /\ UNCHANGED <<responseFolder, responsesFile, responseDataframe, disk>>
    /\ UNCHANGED SingleCallVars
    /\ UNCHANGED PagingVars /\ UNCHANGED <<SessionVars, copying>>

\* lines 1003-1005: the local rows appended to whatever self.responses is now;
\* None has no append: AttributeError, lines 1011-1013
ThreadAppend(t) ==
    /\ threads[t].pc = "append"
    /\ IF responsesIsNone
       THEN /\ ThreadReturns(t, ReturnNone)
            /\ UNCHANGED responses
       ELSE /\ responses' = responses \o threads[t].rows
            /\ ThreadBecomes(t, [threads[t] EXCEPT !.pc = "pop"])
    /\ UNCHANGED <<responseFolder, responsesFile, responseDataframe, disk,
                   responsesIsNone>>
    /\ UNCHANGED SingleCallVars
    /\ UNCHANGED PagingVars /\ UNCHANGED <<SessionVars, copying>>

\* lines 1006-1010: two rows popped off whatever self.responses is now, and
\* that list returned; None has no pop, an empty list raises IndexError
ThreadPop(t) ==
    /\ threads[t].pc = "pop"
    /\ LET popped == PopFront(responses, HeaderRepeatRows)
       IN  IF responsesIsNone
           THEN /\ ThreadReturns(t, ReturnNone)
                /\ UNCHANGED responses
           ELSE /\ responses' = popped.rows
                /\ ThreadReturns(t, IF popped.raised THEN ReturnNone
                                    ELSE ReturnRows(popped.rows))
    /\ UNCHANGED <<responseFolder, responsesFile, responseDataframe, disk,
                   responsesIsNone>>
    /\ UNCHANGED SingleCallVars
    /\ UNCHANGED PagingVars /\ UNCHANGED <<SessionVars, copying>>

\* a Survey with a folder and nothing downloaded, and no thread in its call
ThreadInit ==
    /\ responseFolder \in Folders
    /\ responsesFile = NoPath
    /\ responses = <<>>
    /\ responseDataframe = NoFrame
    /\ disk = [f \in Folders |-> NoFile]
    /\ pc = "idle"
    /\ call = NoCall
    /\ progressId = None
    /\ log = <<>>
    /\ result = NoResult
    /\ responsesIsNone = FALSE
    /\ threads = NoThreads
    /\ qualtrics = NoneCached
    /\ paging = NoGetter
    /\ header = OneSession[1]
    /\ sessions = OneSession /\ copying = NoCopy

ThreadNext ==
    \/ \E t \in Threads : ThreadCall(t)
    \/ \E t \in Threads : ThreadPost(t)
    \/ \E t \in Threads : ThreadPoll(t)
    \/ \E t \in Threads : ThreadFetch(t)
    \/ \E t \in Threads : ThreadDecode(t)
    \/ \E t \in Threads : ThreadAppend(t)
    \/ \E t \in Threads : ThreadPop(t)

ThreadSpec == ThreadInit /\ [][ThreadNext]_vars

\* C15: two threads in get_responses(re_download=True) exclude each other: a
\* thread whose export job completed returns, once it has returned, the rows
\* of one export, and those are the rows of the artifact that is recorded;
\* it never finds self.responses None or filled in part.
C15_ForcedRefreshSerialized ==
    \A t \in Threads :
        (threads[t].pc = "done" /\ threads[t].fileId # "") =>
            /\ threads[t].returned.kind = "rows"
            /\ \E artifact \in ServerArtifacts :
                  threads[t].returned.rows = DecodeFile(File(artifact)).rows

----------------------------------------------------------------------------
(* PageSpec: the paginated getters of Qualtrics, Library and MailingList, *)
(* called with skipAPICalls=True (no element's constructor sends a        *)
(* request). One action is one page request with its answer and all the   *)
(* getter does up to its next request or its return.                      *)

\* most page requests of one traversal
MaxPages == 3
\* most elements of one page
MaxPageElements == 1
\* most getter calls made on the objects
MaxGetterCalls == 2

OffsetGetters == {"get_surveys", "get_groups", "get_mailing_lists"}
UrlGetters == {"get_libraries", "Library.get_surveys", "MailingList.get_contacts"}
Getters == OffsetGetters \cup UrlGetters

\* the attribute a getter assigns and returns
CachedBy(getter) ==
    CASE getter = "get_surveys" -> "surveys"
      [] getter = "get_groups" -> "groups"
      [] getter = "get_mailing_lists" -> "mailing_lists"
      [] getter = "get_libraries" -> "libraries"
      [] getter = "Library.get_surveys" -> "Library.surveys"
      [] getter = "MailingList.get_contacts" -> "MailingList.contacts"

\* the attribute a getter tests before it fetches: lines 190, 300, 355, 458,
\* 542, and line 141, where get_groups tests self.surveys
TestedBy(getter) == IF getter = "get_groups" THEN "surveys" ELSE CachedBy(getter)

\* the step of get_surveys's offset, line 203
PageSize == 100

\* the values of the answer's nextPage: absent, a number, a URL
NextPageValues == {None, "200", "https://next"}
\* int(nextPage), lines 153 and 312: the number, or ValueError (-1)
IntOf(nextPage) == IF nextPage = "200" THEN 200 ELSE -1

\* the answers to a page request: a falsy response, or a page of elements
\* with its nextPage
PageAnswers ==
    {[ok |-> FALSE, n |-> 0, nextPage |-> None]}
        \cup {[ok |-> TRUE, n |-> n, nextPage |-> np] :
                n \in 0..MaxPageElements, np \in NextPageValues}

\* the elements of the k-th page answered: each differs from every other
ElementsOf(k, n) == [j \in 1..n |-> <<k, j>>]

\* a faulty variant of the appends of lines 198-200: the carried list dropped
ElementsWithoutCarried(carried, elements) == elements

\* lines 192-200 (and their likes): the page's elements appended to the
\* carried list
CarriedWith(carried, elements) == carried \o elements

\* a faulty variant of a falsy response: None returned, as get_users does
FailedPageReturnsNone(carried) == [kind |-> "None", elements |-> <<>>, err |-> ""]

\* a falsy response, lines 197 and 206-207: the carried list is returned
FailedPageReturns(carried) == ReturnList(carried)

\* the cursor of the first request: offset 0, the getter's own URL
FirstCursor == Cursor(0, None)

\* the cursor of the next request, lines 203, 153, 312, 369, 474, 557; -1 for
\* the ValueError of int()
NextCursor(getter, cursor, nextPage) ==
    IF getter = "get_surveys" THEN Cursor(cursor.offset + PageSize, None)
    ELSE IF getter \in OffsetGetters
         THEN IF IntOf(nextPage) < 0 THEN Cursor(-1, None)
              ELSE Cursor(cursor.offset + IntOf(nextPage), None)
         ELSE Cursor(0, nextPage)

\* the getter returns `res`; with a list, every level of the recursion has
\* assigned it to the attribute on the way out
GetterDone(f, res) ==
    /\ paging' = [f EXCEPT !.pc = "done", !.returned = res]
    /\ qualtrics' = IF res.kind = "list"
                    THEN [qualtrics EXCEPT ![CachedBy(f.getter)] = res.elements]
                    ELSE qualtrics

\* a faulty variant of the test of line 190: the list fetched on every call
FetchAlways(getter, forceUpdate, caches) == TRUE

\* lines 141, 190, 300, 355, 458, 542: the condition under which a getter
\* fetches its list
FetchNeeded(getter, forceUpdate, caches) ==
    forceUpdate \/ caches[TestedBy(getter)] = <<>>

\* a getter called with forceUpdate: up to its first request, or, with the
\* tested attribute truthy and no forceUpdate, to its return
CallGetter(getter, forceUpdate) ==
    /\ paging.pc = "idle"
    /\ paging.calls < MaxGetterCalls
    /\ LET f == GetterFrame("request", getter, forceUpdate, <<>>, FirstCursor, <<>>,
                            <<>>, NoList, paging.calls + 1)
       IN  IF FetchNeeded(getter, forceUpdate, qualtrics)
           THEN paging' = f /\ UNCHANGED qualtrics
           ELSE /\ paging' = [f EXCEPT !.pc = "done",
                                       !.returned = ReturnList(qualtrics[CachedBy(getter)])]
                /\ UNCHANGED qualtrics
    /\ UNCHANGED SurveyVars
    /\ UNCHANGED <<SessionVars, copying>>

\* one page request and its answer
PageRequest ==
    /\ paging.pc = "request"
    /\ Len(paging.requests) < MaxPages
    /\ \E res \in PageAnswers :
          LET k == Len(paging.requests) + 1
              elements == ElementsOf(k, res.n)
              page == [ok |-> res.ok, elements |-> elements, nextPage |-> res.nextPage]
              f == [paging EXCEPT !.requests = Append(@, paging.cursor),
                                  !.pages = Append(@, page)]
              carried == CarriedWith(paging.carried, elements)
              next == NextCursor(paging.getter, paging.cursor, res.nextPage)
          IN  IF ~res.ok THEN GetterDone(f, FailedPageReturns(paging.carried))
              ELSE IF paging.getter = "get_groups" /\ elements # <<>>
                   \* line 150: Group(data=groups): a list has no get
                   THEN GetterDone(f, RaiseInGetter("AttributeError"))
              ELSE IF ~Truthy(res.nextPage) THEN GetterDone(f, ReturnList(carried))
              ELSE IF next.offset < 0 THEN GetterDone(f, RaiseInGetter("ValueError"))
              ELSE /\ paging' = [f EXCEPT !.carried = carried, !.cursor = next]
                   /\ UNCHANGED qualtrics
    /\ UNCHANGED SurveyVars
    /\ UNCHANGED <<SessionVars, copying>>

\* the getter has returned or raised: the caller has its result
GetterReturn ==
    /\ paging.pc = "done"
    /\ paging' = [NoGetter EXCEPT !.calls = paging.calls]
    /\ UNCHANGED qualtrics
    /\ UNCHANGED SurveyVars
    /\ UNCHANGED <<SessionVars, copying>>

PageInit == Init /\ responseFolder = None

PageNext ==
    \/ \E getter \in Getters, forceUpdate \in BOOLEAN : CallGetter(getter, forceUpdate)
    \/ PageRequest
    \/ GetterReturn

PageSpec == PageInit /\ [][PageNext]_vars

----------------------------------------------------------------------------
(* Properties of the paginated getters, under PageSpec *)

RECURSIVE ConcatPages(_, _)
\* the elements of the first k pages, in the server's order
ConcatPages(pages, k) ==
    IF k = 0 THEN <<>> ELSE ConcatPages(pages, k - 1) \o pages[k].elements

\* the getters of C16 and C17
ListedGetters == {"get_surveys"} \cup UrlGetters

\* the request follows from its predecessor: offset 0 or the getter's own URL
\* first, then 100 further (get_surveys) or the URL the last page named
DerivedFromPredecessor(getter, requests, pages, k) ==
    IF k = 1 THEN requests[1] = Cursor(0, None)
    ELSE IF getter = "get_surveys"
         THEN requests[k] = Cursor(requests[k - 1].offset + 100, None)
         ELSE requests[k] = Cursor(0, pages[k - 1].nextPage)

C17_FailedPageReturnsPartial ==
    (paging.getter \in ListedGetters) =>
        \A k \in 1..Len(paging.pages) :
            ~paging.pages[k].ok =>
                /\ k = Len(paging.pages)
                /\ Len(paging.requests) = k
                /\ paging.pc = "done"
                /\ paging.returned = ReturnList(ConcatPages(paging.pages, k - 1))

\* get_contacts: one page of one element, then a falsy answer: that element
C17_Witness ==
    /\ paging.pc = "done"
    /\ paging.getter = "MailingList.get_contacts"
    /\ Len(paging.pages) = 2
    /\ paging.pages[1].ok /\ Len(paging.pages[1].elements) = 1
    /\ ~paging.pages[2].ok
    /\ paging.returned = ReturnList(<< <<1, 1>> >>)

\* C18: an offset getter requests its first page at offset 0 and each
\* following page 100 further, whatever nextPage the answer carried: a page
\* that has a nextPage is followed by a request, and the k-th request is at
\* offset 100 * (k - 1).
C18_OffsetStepIsPageSize ==
    (paging.getter \in OffsetGetters) =>
        /\ \A k \in 1..Len(paging.requests) :
              paging.requests[k] = Cursor(100 * (k - 1), None)
        /\ paging.pc = "request" =>
              paging.cursor = Cursor(100 * Len(paging.requests), None)
        /\ \A k \in 1..Len(paging.pages) :
              (paging.pages[k].ok /\ Truthy(paging.pages[k].nextPage)) =>
                  paging.returned.kind # Raised

----------------------------------------------------------------------------
(* Properties of saveFilter and existingFilter *)

\* C19: a filter call made with saveFilter=True that returns, returns a Filter
\* object beside the filtered responses, in the row-sequence mode as in the
\* columnar mode.
C19_SaveFilterReturnsFilter ==
    (/\ pc = "done"
     /\ call.op \in FilterOps
     /\ call.saveFilter
     /\ result.kind # Raised)
        => result.saved

\* FilterSpec: both filters, called with or without an existingFilter, on
\* every store of DateSpec
ExistingTextFilters ==
    {Filter(<<>>), Filter(<< <<"Q1", <<"A">>>> >>), Filter(<< <<"Q2", <<>>>> >>),
     Filter(<< <<UnknownField, <<"A">>>> >>)}
ExistingDateFilters ==
    {Filter(<<>>), Filter(<< <<"RecordedDate", <<T2, Chars_before>>>> >>),
     Filter(<< <<"StartDate", <<T2, Chars_a>>>> >>),
     Filter(<< <<"RecordedDate", <<T2>>>> >>)}

FilterNext ==
    \/ \E filters \in TextFilters, existingFilter \in ExistingTextFilters \cup {NoFilter},
          saveFilter \in BOOLEAN, dataFrame \in BOOLEAN :
            CallFilterText(filters, existingFilter, saveFilter, None, FALSE, dataFrame)
    \/ \E filters \in DateFilters, existingFilter \in ExistingDateFilters \cup {NoFilter},
          saveFilter \in BOOLEAN, dataFrame \in BOOLEAN :
            CallFilterDate(filters, existingFilter, saveFilter, None, FALSE, dataFrame)
    \/ Return

FilterSpec == DateInit /\ [][FilterNext]_vars

\* the call `c` made with filters=existingFilter.filter and no existingFilter
WithoutExistingFilter(c) ==
    Call(c.op, c.folderName, c.re_download, c.existingFilter.filter, NoFilter,
         c.dataFrame, c.saveFilter, c.response_id, c.returnNew, c.stage)

\* C20: a filter call made with an existingFilter ends as the same call made
\* with filters=existingFilter.filter and no existingFilter ends on the same
\* store, whatever filters argument came with it: the same result or the
\* same error, and the same store.
C20_ExistingFilterReplacesFilters ==
    [][(/\ Idle
        /\ call'.op \in FilterOps
        /\ call'.existingFilter.exists)
       => LET plain == FilterCall(WithoutExistingFilter(call'))
          IN  /\ pc' = plain.pc
              /\ result' = plain.result
              /\ responses' = plain.store.responses
              /\ responseDataframe' = plain.store.responseDataframe]_vars

\* filter_responses_by_date with the existingFilter {StartDate: [T2, 'a']} has
\* returned records of the store
C20_Witness ==
    /\ pc = "done"
    /\ call.op = "filter_responses_by_date"
    /\ call.existingFilter = Filter(<< <<"StartDate", <<T2, Chars_a>>>> >>)
    /\ call.filters = call.existingFilter.filter
    /\ ~call.dataFrame
    /\ result.kind = "rows"
    /\ result.rows # <<>>

----------------------------------------------------------------------------
(* Further properties of the store and the filters *)

\* C21: a filter call made with re_download=False and no folderName on a
\* survey whose table is built ends in the same step, whether it returns or
\* raises, with the rows, the table, the path, the folder and the artifact as
\* they were, and with no request.
C21_EvaluationLeavesStore ==
    [][(/\ Idle
        /\ call'.op \in FilterOps
        /\ ~call'.re_download
        /\ ~Truthy(call'.folderName)
        /\ responseDataframe.exists)
       => (/\ pc' = "done"
           /\ log' = <<>>
           /\ responses' = responses
           /\ responseDataframe' = responseDataframe
           /\ responsesFile' = responsesFile
           /\ responseFolder' = responseFolder
           /\ disk' = disk)]_vars

\* filter_responses_by_text({Q1: [A]}) on a built store has returned records
\* with no request and no read
C21_Witness ==
    /\ pc = "done"
    /\ call.op = "filter_responses_by_text"
    /\ ~call.re_download
    /\ ~Truthy(call.folderName)
    /\ responseDataframe.exists
    /\ log = <<>>
    /\ result.kind = "rows"
    /\ result.rows # <<>>

\* DecodeSpec: a Survey constructed with responseFile and skipAPICalls=True
\* (lines 872-884): the path recorded, no row decoded yet, the table read from
\* the file; the artifacts include files of fewer than two rows
DecodeArtifacts == TextArtifacts \cup {<<>>, <<LabelRow>>}

DecodeInit ==
    \E artifact \in DecodeArtifacts :
        /\ responseFolder = "out1"
        /\ responsesFile = ResponsesPath("out1", "csv")
        /\ disk = [f \in Folders |-> IF f = "out1" THEN File(artifact) ELSE NoFile]
        /\ responses = <<>>
        /\ responseDataframe = Frame(ReadCsv(artifact))
        /\ pc = "idle"
        /\ call = NoCall
        /\ progressId = None
        /\ log = <<>>
        /\ result = NoResult
        /\ responsesIsNone = FALSE
        /\ threads = NoThreads
        /\ qualtrics = NoneCached
        /\ paging = NoGetter
        /\ header = OneSession[1]
        /\ sessions = OneSession /\ copying = NoCopy
    /\ header = OneSession[1]
    /\ sessions = OneSession /\ copying = NoCopy

DecodeNext ==
    \/ \E folderName \in {None, "out1"} : CallGetResponses(folderName, FALSE)
    \/ \E response_id \in ResponseIds : CallGetResponse(response_id, FALSE)
    \/ Return

DecodeSpec == DecodeInit /\ [][DecodeNext]_vars

\* C22: after a get_responses call has returned its rows from an artifact of
\* two rows or more after the header line, the rows are the artifact's rows
\* from the third on, in the file's order, and they are what the call
\* returned; an artifact of two rows or more does make the call return rows.
C22_RowsFromTheThirdOn ==
    (pc = "done" /\ call.op = "get_responses") =>
        LET lines == FileAt(disk, responsesFile).lines
        IN  Len(lines) >= 2 =>
                /\ result.kind = "rows"
                /\ Len(responses) = Len(lines) - 2
                /\ \A i \in 1..Len(responses) : responses[i] = lines[i + 2]
                /\ result.rows = responses

\* an artifact of the two header rows and three records has been decoded
C22_Witness ==
    /\ pc = "done"
    /\ call.op = "get_responses"
    /\ log = <<OpenedFile>>
    /\ Len(FileAt(disk, responsesFile).lines) = 5
    /\ FileAt(disk, responsesFile).lines[1] = LabelRow
    /\ FileAt(disk, responsesFile).lines[2] = ImportIdRow
    /\ Len(responses) = 3
    /\ responses[1].ResponseId = "R1"
    /\ responses[3].ResponseId = "R3"

----------------------------------------------------------------------------
(* PayloadSpec: the JSON body of the export request, lines 915-936. In this *)
(* specification `call` holds the arguments of _export_survey and `log` the *)
(* POST with its body.                                                      *)

\* some of the optional parameters of _export_survey and their keys in the
\* body, lines 916-930
OptionKey(param) ==
    CASE param = "start_date" -> "startDate"
      [] param = "limit" -> "limit"
      [] param = "use_labels" -> "useLabels"
      [] param = "question_ids" -> "questionIds"
      [] param = "compress" -> "compress"
OptionParams == {"start_date", "limit", "use_labels", "question_ids", "compress"}

\* an argument: not supplied (the default None), or supplied with a value, the
\* value written as Python writes it
NotSupplied == [supplied |-> FALSE, value |-> "None"]
Supplied(value) == [supplied |-> TRUE, value |-> value]
OptionValues(param) ==
    CASE param = "start_date" -> {"", "2021-01-01T00:00:00Z"}
      [] param = "limit" -> {"0", "5"}
      [] param = "use_labels" -> {"False", "True"}
      [] param = "question_ids" -> {"[]", "['QID1']"}
      [] param = "compress" -> {"False", "True"}

\* line 931, `if var:`: the truthiness of a value
PyTruthy(value) == value \notin {"None", "", "0", "False", "[]"}

\* lines 915-932: the body, as the keys it has and their values
Absent == [present |-> FALSE, value |-> "None"]
Present(value) == [present |-> TRUE, value |-> value]
ExportPayload(fileFormat, options) ==
    [key \in {"format"} \cup {OptionKey(p) : p \in OptionParams} |->
        IF key = "format" THEN Present(fileFormat)
        ELSE LET p == CHOOSE q \in OptionParams : OptionKey(q) = key
             IN  IF PyTruthy(options[p].value) THEN Present(options[p].value)
                 ELSE Absent]

\* get_responses(...) on a survey with a folder and no artifact: lines 979-996
\* hand the options to _export_survey, which builds the body and POSTs it
ExportPayloadPost(options) ==
    /\ Idle
    /\ call = NoCall
    /\ pc' = "done"
    /\ call' = [op |-> "_export_survey", fileFormat |-> "csv", options |-> options]
    /\ log' = <<[kind |-> "POST", payload |-> ExportPayload("csv", options)]>>
    /\ UNCHANGED <<responseFolder, responsesFile, responses, responseDataframe, disk,
                   progressId, result, responsesIsNone, threads>>
    /\ UNCHANGED PagingVars /\ UNCHANGED <<SessionVars, copying>>

PayloadInit == Init /\ responseFolder = "out1"

\* what a caller may pass for a parameter
Arguments(param) == {NotSupplied} \cup {Supplied(v) : v \in OptionValues(param)}

PayloadNext ==
    \/ \E start_date \in Arguments("start_date"), limit \in Arguments("limit"),
          use_labels \in Arguments("use_labels"),
          question_ids \in Arguments("question_ids"),
          compress \in Arguments("compress") :
            ExportPayloadPost([start_date |-> start_date, limit |-> limit,
                               use_labels |-> use_labels,
                               question_ids |-> question_ids, compress |-> compress])
    \/ Return

PayloadSpec == PayloadInit /\ [][PayloadNext]_vars

\* C23: the body of the export request has an optional key exactly when the
\* caller supplied that parameter, with the value supplied, be it falsy; it
\* always has 'format'.
C23_PayloadByPresence ==
    (pc = "done" /\ call.op = "_export_survey") =>
        LET payload == log[1].payload
        IN  /\ payload["format"] = Present(call.fileFormat)
            /\ \A p \in OptionParams :
                  payload[OptionKey(p)] =
                      IF call.options[p].supplied THEN Present(call.options[p].value)
                      ELSE Absent

----------------------------------------------------------------------------
(* SessionSpec: Qualtrics objects are constructed and their entities send *)
(* requests. In this specification `log` holds, for each request, the     *)
(* session that owns the sender and the token of the header sent.         *)

\* most Qualtrics objects constructed, most requests followed
MaxSessions == 3
MaxSessionRequests == 2

\* lines 39, 45, 51, 57: headers=(request_header if request_header else header)
HeaderSent(request_header) == IF Truthy(request_header) THEN request_header ELSE header

\* Qualtrics.__init__(qualtricsUrl, qualtricsToken), lines 85-90, with
\* skipAPICalls=True: the global header is set from this object's token
NewSession(qualtricsToken) ==
    /\ Len(sessions) < MaxSessions
    /\ header' = qualtricsToken
    /\ sessions' = Append(sessions, qualtricsToken)
    /\ UNCHANGED copying
    /\ UNCHANGED SurveyVars
    /\ UNCHANGED PagingVars

\* an entity of session i sends a request through get_request, post_request,
\* put_request or delete_request with no request_header
SessionRequest(i, kind) ==
    /\ Len(log) < MaxSessionRequests
    /\ log' = Append(log, [kind |-> kind, session |-> i, token |-> HeaderSent(None)])
    /\ UNCHANGED <<responseFolder, responsesFile, responses, responseDataframe, disk,
                   pc, call, progressId, result, responsesIsNone, threads>>
    /\ UNCHANGED PagingVars
    /\ UNCHANGED <<SessionVars, copying>>

\* Survey.copy's POST, lines 1217-1225: a request_header made of
\* self.qualtrics.token
CopyRequest(i) ==
    /\ Len(log) < MaxSessionRequests
    /\ log' = Append(log, [kind |-> "COPY", session |-> i,
                           token |-> HeaderSent(sessions[i])])
    /\ UNCHANGED <<responseFolder, responsesFile, responses, responseDataframe, disk,
                   pc, call, progressId, result, responsesIsNone, threads>>
    /\ UNCHANGED PagingVars
    /\ UNCHANGED <<SessionVars, copying>>

\* the module imported, line 19, and no Qualtrics object yet
SessionInit ==
    /\ responseFolder = None
    /\ responsesFile = NoPath
    /\ responses = <<>>
    /\ responseDataframe = NoFrame
    /\ disk = [f \in Folders |-> NoFile]
    /\ pc = "idle"
    /\ call = NoCall
    /\ progressId = None
    /\ log = <<>>
    /\ result = NoResult
    /\ responsesIsNone = FALSE
    /\ threads = NoThreads
    /\ qualtrics = NoneCached
    /\ paging = NoGetter
    /\ header = ""
    /\ sessions = <<>>
    /\ copying = NoCopy

SessionNext ==
    \/ \E qualtricsToken \in Tokens : NewSession(qualtricsToken)
    \/ \E i \in 1..Len(sessions), kind \in {"GET", "POST", "PUT", "DELETE"} :
            SessionRequest(i, kind)
    \/ \E i \in 1..Len(sessions) : CopyRequest(i)

SessionSpec == SessionInit /\ [][SessionNext]_vars

\* C24: every request carries the token of the session that owns the entity
\* that sent it.
C24_RequestCarriesOwnToken ==
    \A k \in 1..Len(log) : log[k].token = sessions[log[k].session]

----------------------------------------------------------------------------
(* Further properties of the export *)

\* C25: a filter call made with a folderName runs a new export job before it
\* evaluates: the call goes on to the export POST, whatever the survey's
\* responseFolder and artifact.
C25_FolderNameRedownloads ==
    [][(/\ Idle
        /\ call'.op \in FilterOps
        /\ Truthy(call'.folderName))
       => pc' = "post"]_vars

\* the get_responses call with these arguments on the store as it is
GetResponsesCall(folderName, re_download) ==
    get_responses(store,
                  Call("get_responses", folderName, re_download, <<>>, NoFilter, FALSE,
                       FALSE, "", FALSE, 1),
                  <<>>, folderName, re_download)

\* the same call when its export POST is answered with an error
FailedAtPost(folderName, re_download) ==
    LET o == GetResponsesCall(folderName, re_download)
    IN  GetResponsesFailed(o.store, o.call,
                           Append(o.log, Exchange("POST", "", "error", "")), "KeyError")

\* C26: a get_responses call whose export fails leaves responseFolder,
\* responsesFile, the rows and the table as they were before the call, and a
\* later call with the same folderName attempts the export again.
C26_FailedExportLeavesStore ==
    Idle =>
        \A folderName \in FolderNames, re_download \in BOOLEAN :
            GetResponsesCall(folderName, re_download).pc = "post" =>
                LET after == FailedAtPost(folderName, re_download).store
                IN  /\ after.responseFolder = responseFolder
                    /\ after.responsesFile = responsesFile
                    /\ after.responses = responses
                    /\ after.responseDataframe = responseDataframe
                    /\ ExportNeeded(after, folderName, FALSE)

\* C27: on a store with at least one record, filter_responses_by_text raises
\* no error for a filter whose fields are all columns of the artifact and whose
\* value lists are not empty, whatever the records hold for those fields.
C27_ValidFilterAccepted ==
    (/\ pc = "done"
     /\ call.op = "filter_responses_by_text"
     /\ responses # <<>>
     /\ ~InvalidTextSpec(responses, call.filters))
        => result.kind # Raised

----------------------------------------------------------------------------
(* Further properties of the cached getters, under PageSpec *)

\* the cached getters of Qualtrics that PageSpec has
QualtricsGetters == {"get_surveys", "get_groups", "get_mailing_lists", "get_libraries"}

\* a getter is called in this step without forceUpdate
CalledUnforced(getters) ==
    /\ paging.pc = "idle"
    /\ paging'.pc # "idle"
    /\ paging'.getter \in getters
    /\ ~paging'.forceUpdate

\* C28: a cached getter of Qualtrics called with forceUpdate=False goes on to
\* a request if and only if its own cache is empty; with its own cache not
\* empty it returns that cache in the same step, with no request and every
\* cache as it was.
C28_RequestIffOwnCacheEmpty ==
    [][CalledUnforced(QualtricsGetters)
       => LET own == qualtrics[CachedBy(paging'.getter)]
          IN  /\ paging'.pc = "request" <=> own = <<>>
              /\ own # <<>> => /\ paging'.pc = "done"
                               /\ paging'.returned = ReturnList(own)
                               /\ qualtrics' = qualtrics]_vars

\* the traversal ends in this step on a falsy answer to its last request
EndsOnFailedPage ==
    /\ paging.pc = "request"
    /\ paging'.pc = "done"
    /\ ~paging'.pages[Len(paging'.pages)].ok

\* C29: a traversal of get_surveys, get_libraries, Library.get_surveys or
\* get_contacts that ends on a failed page fetch stores the list gathered so far
\* as the getter's cache, and a call without forceUpdate made while that cache
\* is not empty returns the cached list in the same step with no request.
C29_PartialListIsCached ==
    [][/\ (EndsOnFailedPage /\ paging.getter \in ListedGetters)
            => LET partial == ConcatPages(paging'.pages, Len(paging'.pages) - 1)
               IN  /\ paging'.returned = ReturnList(partial)
                   /\ qualtrics'[CachedBy(paging.getter)] = partial
       /\ (CalledUnforced(ListedGetters) /\ qualtrics[CachedBy(paging'.getter)] # <<>>)
            => /\ paging'.pc = "done"
               /\ paging'.requests = <<>>
               /\ paging'.returned = ReturnList(qualtrics[CachedBy(paging'.getter)])
               /\ qualtrics' = qualtrics]_vars

\* get_surveys was answered one page of one survey and then a falsy answer:
\* that one survey is the cache, and a call without forceUpdate would not fetch
C29_Witness ==
    /\ paging.pc = "done"
    /\ paging.getter = "get_surveys"
    /\ Len(paging.pages) = 2
    /\ paging.pages[1].ok /\ Truthy(paging.pages[1].nextPage)
    /\ ~paging.pages[2].ok
    /\ qualtrics["surveys"] = << <<1, 1>> >>
    /\ ~FetchNeeded("get_surveys", FALSE, qualtrics)

----------------------------------------------------------------------------
(* CopySpec: Survey.copy, lines 1201-1242, called with a new_owner_id; its *)
(* get_surveys traversals are the page requests of PageSpec.               *)

\* the ids the server may give the copy: those of the elements its pages list
NewSurveyIds == {<<1, 1>>, <<2, 1>>}

\* line 1230
RetryLimit == 3

\* a faulty variant of the line 1231 test: one more turn of the loop
KeepsTryingAtZero(retry_limit) == retry_limit >= 0

\* line 1231: while retry_limit > 0
KeepsTrying(retry_limit) == retry_limit > 0

\* get_surveys(forceUpdate) entered from Survey.copy: lines 189-196, up to its
\* first request
Traversal(forceUpdate) ==
    GetterFrame("request", "get_surveys", forceUpdate, <<>>, FirstCursor, <<>>, <<>>,
                NoList, paging.calls)

\* lines 213-220 of get_survey: the survey of that id in the list, or None
FindSurvey(surveys, survey_id) ==
    IF \E i \in 1..Len(surveys) : surveys[i] = survey_id
    THEN CopyResult("Survey", survey_id)
    ELSE NoSurvey

CopyDone(f, res) == copying' = [f EXCEPT !.pc = "done", !.returned = res]

CopyStep ==
    /\ UNCHANGED SurveyVars
    /\ UNCHANGED SessionVars

\* Survey.copy(new_owner_id, activateNow, returnNewSurvey), lines 1201-1224
CallCopy(activateNow, returnNewSurvey) ==
    /\ copying.pc = "idle"
    /\ paging.pc = "idle"
    /\ copying' = CopyFrame("post", activateNow, returnNewSurvey, <<>>, 0, 0, 0,
                            NoCopy.returned)
    /\ UNCHANGED PagingVars
    /\ CopyStep

\* lines 1225-1228 and 1239-1241: the copy POST; answered, get_surveys is
\* forced; falsy, the call returns None or False
CopyPost ==
    /\ copying.pc = "post"
    /\ \/ \E id \in NewSurveyIds :
            /\ copying' = [copying EXCEPT !.pc = "refresh", !.new_survey_id = id]
            /\ paging' = Traversal(TRUE)
       \/ /\ CopyDone(copying, IF copying.returnNewSurvey THEN NoSurvey
                                 ELSE CopyResult("False", <<>>))
          /\ UNCHANGED paging
    /\ UNCHANGED qualtrics
    /\ CopyStep

\* lines 1229-1232 and 1238: the list fetched; the loop is entered with its
\* first get_survey(forceUpdate=True), or True is returned
CopyRefreshed ==
    /\ copying.pc = "refresh"
    /\ paging.pc = "done"
    /\ IF copying.returnNewSurvey /\ KeepsTrying(RetryLimit)
       THEN /\ copying' = [copying EXCEPT !.pc = "lookup", !.retry_limit = RetryLimit,
                                          !.lookups = 1]
            /\ paging' = Traversal(TRUE)
       ELSE /\ CopyDone(copying, CopyResult("True", <<>>))
            /\ paging' = [NoGetter EXCEPT !.calls = paging.calls]
    /\ UNCHANGED qualtrics
    /\ CopyStep

\* lines 1232-1237: get_survey has its list; the survey found, the call
\* returns it or goes on to activate it; not found, retry_limit goes down and
\* the loop turns again or None is returned
CopyLookup ==
    /\ copying.pc = "lookup"
    /\ paging.pc = "done"
    /\ LET new_survey == FindSurvey(paging.returned.elements, copying.new_survey_id)
           retry_limit == copying.retry_limit - 1
       IN  IF new_survey # NoSurvey
           THEN /\ IF copying.activateNow
                   THEN copying' = [copying EXCEPT !.pc = "activate",
                                                   !.found_at = copying.lookups]
                   ELSE CopyDone([copying EXCEPT !.found_at = copying.lookups], new_survey)
                /\ paging' = [NoGetter EXCEPT !.calls = paging.calls]
           ELSE IF KeepsTrying(retry_limit)
                THEN /\ copying' = [copying EXCEPT !.retry_limit = retry_limit,
                                                   !.lookups = @ + 1]
                     /\ paging' = Traversal(TRUE)
                ELSE /\ CopyDone([copying EXCEPT !.retry_limit = retry_limit], NoSurvey)
                     /\ paging' = [NoGetter EXCEPT !.calls = paging.calls]
    /\ UNCHANGED qualtrics
    /\ CopyStep

\* new_survey.update(isActive=True), lines 1262-1270: the PUT; answered,
\* get_surveys is forced; falsy, None is returned
CopyActivate ==
    /\ copying.pc = "activate"
    /\ \/ /\ copying' = [copying EXCEPT !.pc = "activated"]
          /\ paging' = Traversal(TRUE)
       \/ /\ CopyDone(copying, NoSurvey)
          /\ UNCHANGED paging
    /\ UNCHANGED qualtrics
    /\ CopyStep

\* line 1267: get_survey(survey_id=self.id), not forced: the cached list is
\* searched, or, the cache empty, fetched once more
CopyActivated ==
    /\ copying.pc = "activated"
    /\ paging.pc = "done"
    /\ IF FetchNeeded("get_surveys", FALSE, qualtrics)
       THEN /\ copying' = [copying EXCEPT !.pc = "fetched"]
            /\ paging' = Traversal(FALSE)
       ELSE /\ CopyDone(copying, FindSurvey(qualtrics["surveys"], copying.new_survey_id))
            /\ paging' = [NoGetter EXCEPT !.calls = paging.calls]
    /\ UNCHANGED qualtrics
    /\ CopyStep

\* lines 213-220 after that fetch
CopyFetched ==
    /\ copying.pc = "fetched"
    /\ paging.pc = "done"
    /\ CopyDone(copying, FindSurvey(paging.returned.elements, copying.new_survey_id))
    /\ paging' = [NoGetter EXCEPT !.calls = paging.calls]
    /\ UNCHANGED qualtrics
    /\ CopyStep

\* the call has returned: the caller has its result
CopyReturn ==
    /\ copying.pc = "done"
    /\ copying' = NoCopy
    /\ UNCHANGED PagingVars
    /\ CopyStep

CopyInit == PageInit

CopyNext ==
    \/ \E activateNow \in BOOLEAN, returnNewSurvey \in BOOLEAN :
            CallCopy(activateNow, returnNewSurvey)
    \/ CopyPost
    \/ PageRequest
    \/ CopyRefreshed
    \/ CopyLookup
    \/ CopyActivate
    \/ CopyActivated
    \/ CopyFetched
    \/ CopyReturn

CopySpec == CopyInit /\ [][CopyNext]_vars

\* C30: once its POST has succeeded, Survey.copy with returnNewSurvey=True
\* makes at most 3 forced lookups of the new id, with retry_limit going down
\* by one at each miss; it leaves the loop at the first lookup that finds the
\* survey, and after the third miss it returns None.
C30_AtMostThreeLookups ==
    copying.returnNewSurvey =>
        /\ copying.lookups <= 3
        /\ copying.pc = "lookup" =>
              /\ copying.retry_limit = 3 - (copying.lookups - 1)
              /\ copying.retry_limit > 0
              /\ copying.found_at = 0
        /\ copying.found_at # 0 => copying.found_at = copying.lookups
        /\ (copying.pc = "done" /\ copying.lookups >= 1 /\ copying.found_at = 0)
              => /\ copying.lookups = 3
                 /\ copying.returned = NoSurvey

\* three lookups have missed the new survey: None is returned
C30_Witness ==
    /\ copying.pc = "done"
    /\ copying.returnNewSurvey
    /\ copying.new_survey_id # <<>>
    /\ copying.lookups = 3
    /\ copying.found_at = 0
    /\ copying.retry_limit = 0
    /\ copying.returned = NoSurvey

====
